---- MODULE Spec2Model ----
(***************************************************************************)
(* A model of pymel 0.8 as documented by the package docstring and its     *)
(* doctests (src/__init__.py) and by the package bootstrap at the end of   *)
(* that file.  The host scene (Maya) is modelled as a set of native nodes  *)
(* with handles; PyNodes are python objects that hold a native handle and  *)
(* a cached display name.  Strings are sequences of tokens, so that        *)
(* parsing a name ('|' and '.' separators) is something the model does.    *)
(***************************************************************************)
EXTENDS Integers, Sequences, FiniteSets, TLC

(***************************************************************************)
(* Bounds                                                                  *)
(***************************************************************************)
MaxNodes == 3
MaxRefs == 1
MaxSessions == 1
MaxDict == 1

(***************************************************************************)
(* Strings                                                                 *)
(***************************************************************************)
NodeNames == {"earth", "moon", "persp", "sun"}

Bar == "|"

Dot == "."

RECURSIVE Join(_, _)
\* sep.join(parts): parts is a sequence of strings
Join(parts, sep) ==
    IF parts = <<>> THEN <<>>
    ELSE IF Len(parts) = 1 THEN parts[1]
    ELSE parts[1] \o <<sep>> \o Join(Tail(parts), sep)

RECURSIVE SplitAcc(_, _, _)
SplitAcc(s, sep, cur) ==
    IF s = <<>> THEN <<cur>>
    ELSE IF Head(s) = sep THEN <<cur>> \o SplitAcc(Tail(s), sep, <<>>)
    ELSE SplitAcc(Tail(s), sep, Append(cur, Head(s)))

\* s.split(sep): a sequence of strings
Split(s, sep) == SplitAcc(s, sep, <<>>)

\* s[0:k]
Slice(s, k) == SubSeq(s, 1, IF k < Len(s) THEN k ELSE Len(s))

\* sep in s
Contains(s, tok) == \E i \in 1..Len(s) : s[i] = tok

(***************************************************************************)
(* The host scene: native nodes, their names, types and DAG parents        *)
(***************************************************************************)
VARIABLES hostHasUid, session, node, refs, dict, ret

\* the package namespace and the plugin callbacks
VARIABLES namespace, pluginData, nextObj, lastEv

\* the namespace as it was before the callback that ran last
VARIABLE prevNs

pluginVars == <<namespace, pluginData, nextObj, lastEv, prevNs>>

sceneVars == <<hostHasUid, session, node, refs, dict, ret>>

\* the example procedure doIt: the mesh it is given, the Color objects, and
\* the locals and position of the running call
VARIABLES edges, vcolor, colorSets, updated, display, blackShared, heap, colors, idx, pc,
          log, calls

meshVars == <<edges, vcolor, colorSets, updated, display, blackShared, heap, colors, idx, pc,
              log, calls>>

\* the import of the package: the statement of __init__.py to run next, the
\* statements that completed, what _mayaInit() returns, whether core exports
\* a name cmds, and whether the plugin callbacks are installed
VARIABLES bootPc, bootLog, mayaInitOk, coreCmds, installed

bootVars == <<bootPc, bootLog, mayaInitOk, coreCmds, installed>>

\* the factory: the metadata catalogue, the entry to generate next, the
\* classes and commands generated, the warnings logged, and its position
VARIABLES catalogue, genIdx, generated, warnings, genPc

genVars == <<catalogue, genIdx, generated, warnings, genPc>>

\* _test(): the examples of the docstring, the example to run next, the
\* report, and the position of the run
VARIABLES examples, exIdx, report, testPc

testVars == <<examples, exIdx, report, testPc>>

\* the state outside the scene and its PyNodes
outsideScene == <<pluginVars, meshVars, bootVars, genVars, testVars>>

\* the state outside the package namespace and the plugin callbacks
outsidePlugin == <<sceneVars, meshVars, bootVars, genVars, testVars>>

\* the state outside the example procedure
outsideDoIt == <<sceneVars, pluginVars, bootVars, genVars, testVars>>

\* the state the import of the package leaves alone
outsideBoot == <<sceneVars, meshVars, pluginData, nextObj, lastEv, prevNs, genVars, testVars>>

\* the state outside the factory
outsideFactory == <<sceneVars, pluginVars, meshVars, bootVars, testVars>>

\* the state outside the run of the examples
outsideTest == <<sceneVars, pluginVars, meshVars, bootVars, genVars>>

Handles == 1..MaxNodes

World == 0

NodeTypes == {"transform", "camera"}

NoNode == [alive |-> FALSE, name |-> "", type |-> "", parents |-> <<>>]

NoRet == [op |-> "none"]

Alive == {h \in Handles : node[h].alive}

UsedNames == {node[h].name : h \in Alive}

Children(g) == {h \in Alive : \E i \in 1..Len(node[h].parents) : node[h].parents[i] = g}

\* the class generated for a node type: the capitalized type name
ClassName(ty) ==
    CASE ty = "transform" -> "Transform"
      [] ty = "camera" -> "Camera"
      [] OTHER -> "DependNode"

\* MFnDagNode.partialPathName of instance i of node h: the shortest unique
\* name; node names are unique, so a node with one path shows its own name
\* and an instanced node shows parent|name
NativeNameOf(nd, h, i) ==
    IF Len(nd[h].parents) = 1 THEN <<nd[h].name>>
    ELSE IF nd[h].parents[i] = World THEN <<Bar, nd[h].name>>
    ELSE <<nd[nd[h].parents[i]].name, Bar, nd[h].name>>

NativeName(h, i) == NativeNameOf(node, h, i)

\* MFnDagNode.fullPathName of instance i of node h (groups sit at the root)
FullPathName(h, i) ==
    IF node[h].parents[i] = World THEN <<Bar, node[h].name>>
    ELSE <<Bar, node[node[h].parents[i]].name, Bar, node[h].name>>

Paths == {<<h, i>> \in Handles \X (1..MaxNodes) : h \in Alive /\ i <= Len(node[h].parents)}


(***************************************************************************)
(* Attributes (plugs) and methods of the node classes                      *)
(***************************************************************************)
NoPlug == ""

BadPlug == "?"

MemberNames == {"t", "translate", "tx", "translateX", "spangle", "getShape"}

\* the plugs a node of the type owns, by long name
PlugsOf(ty) ==
    CASE ty = "transform" -> {"translate", "translateX"}
      [] ty = "camera" -> {"translate", "translateX", "focalLength"}
      [] OTHER -> {}

\* the methods the class of the type defines
MethodsOf(ty) ==
    CASE ty = "transform" -> {"getShape"}
      [] ty = "camera" -> {"getCenterOfInterest"}
      [] OTHER -> {}

\* short name -> long name; a long name is its own long name
LongName(m) ==
    CASE m = "t" -> "translate"
      [] m = "tx" -> "translateX"
      [] OTHER -> m

\* the compound parent of a plug
AttrParent(p) == IF p = "translateX" THEN "translate" ELSE NoPlug

RECURSIVE ResolvePlug(_, _, _)
\* walk a dotted attribute path (a sequence of member names, long or short)
\* down from `parent` (NoPlug at the node): the plug reached, or BadPlug
ResolvePlug(ty, members, parent) ==
    IF members = <<>> THEN parent
    ELSE LET p == LongName(Head(members))
         IN IF p \in PlugsOf(ty) /\ (parent = NoPlug \/ AttrParent(p) = parent)
            THEN ResolvePlug(ty, Tail(members), p)
            ELSE BadPlug

(***************************************************************************)
(* PyNode objects                                                          *)
(***************************************************************************)
\* a node-level PyNode: the native handle, the DAG instance and the display
\* name cached when the object was built
NodeRef(h, i) ==
    [kind |-> "node", h |-> h, inst |-> i, plug |-> NoPlug, cached |-> NativeName(h, i)]

\* an Attribute: the native plug of a node, with the name it was built from
AttrRef(h, i, p, text) ==
    [kind |-> "attr", h |-> h, inst |-> i, plug |-> p, cached |-> text]

\* the name as an immutable string would keep it: the text the object was
\* built with
CurrentName_cached(r) == r.cached

\* ProxyUnicode: the string a PyNode stands for whenever its name is needed
\* is the current name of the object, asked of the API object
CurrentName(r) ==
    IF r.kind = "node" THEN NativeName(r.h, r.inst)
    ELSE NativeName(r.h, r.inst) \o <<Dot, r.plug>>

\* repr built from the name the object was created with
Repr_cached(r) ==
    <<IF r.kind = "node" THEN ClassName(node[r.h].type) ELSE "Attribute", "('">>
        \o r.cached \o <<"')">>

\* repr(node): Class('name')
Repr(r) ==
    <<IF r.kind = "node" THEN ClassName(node[r.h].type) ELSE "Attribute", "('">>
        \o CurrentName(r) \o <<"')">>

(***************************************************************************)
(* Exceptions                                                              *)
(***************************************************************************)
ExcClasses ==
    {"MayaObjectError", "MayaNodeError", "MayaAttributeError", "AttributeError",
     "KeyError", "Exception"}

\* MayaAttributeError deriving from MayaObjectError alone
Bases_single(c) ==
    CASE c = "MayaNodeError" -> {"MayaObjectError"}
      [] c = "MayaAttributeError" -> {"MayaObjectError"}
      [] c = "Exception" -> {}
      [] OTHER -> {"Exception"}

\* the direct base classes of an exception class
Bases(c) ==
    CASE c = "MayaNodeError" -> {"MayaObjectError"}
      [] c = "MayaAttributeError" -> {"MayaObjectError", "AttributeError"}
      [] c = "Exception" -> {}
      [] OTHER -> {"Exception"}

RECURSIVE IsSubclass(_, _)
IsSubclass(c, d) == c = d \/ \E b \in Bases(c) : IsSubclass(b, d)

\* `except handler:` catches a raised exception of class exc
Catches(handler, exc) == exc \in ExcClasses /\ IsSubclass(exc, handler)

\* an existence error that does not look at the form of the name
ObjectError_node(name) == "MayaNodeError"

\* the existence error for a name that does not resolve
ObjectError(name) == IF Contains(name, Dot) THEN "MayaAttributeError" ELSE "MayaNodeError"

\* the DAG paths a node path string names
NodeMatches(nodePart) ==
    {hi \in Paths : nodePart = NativeName(hi[1], hi[2]) \/ nodePart = FullPathName(hi[1], hi[2])}

\* the member names of a dotted suffix: each part must be one identifier
MemberSeq(parts) == [k \in 1..Len(parts) |-> IF Len(parts[k]) = 1 THEN parts[k][1] ELSE BadPlug]

\* PyNode(name): the object built, or the exception raised
PyNode(name) ==
    LET parts == Split(name, Dot)
        found == NodeMatches(parts[1])
    IN IF found = {} THEN [exc |-> ObjectError(name), arg |-> name]
       ELSE LET hi == CHOOSE x \in found : TRUE
                p == ResolvePlug(node[hi[1]].type, MemberSeq(Tail(parts)), NoPlug)
            IN IF Len(parts) = 1 THEN [exc |-> "none", obj |-> NodeRef(hi[1], hi[2])]
               ELSE IF p = BadPlug THEN [exc |-> "MayaAttributeError", arg |-> name]
               ELSE [exc |-> "none", obj |-> AttrRef(hi[1], hi[2], p, name)]


(***************************************************************************)
(* Equality and hashing                                                    *)
(***************************************************************************)
NoRef == [kind |-> "none"]

Vars == 1..MaxRefs

Held == {v \in Vars : refs[v].kind # "none"}

\* a comparison of the names the two objects were built with
Eq_byName(a, b) == a.cached = b.cached

\* a comparison of the dependency nodes alone, whatever the DAG path
Eq_byNode(a, b) ==
    /\ a.kind = b.kind
    /\ a.h = b.h
    /\ a.plug = b.plug

\* a comparison of DAG paths for attributes as for nodes
Eq_byPath(a, b) ==
    /\ a.kind = b.kind
    /\ a.h = b.h
    /\ a.plug = b.plug
    /\ a.inst = b.inst

\* a == b: the same API object; a DAG node is its path, an attribute is a
\* plug of a node whatever the instance it was reached through
Eq(a, b) ==
    /\ a.kind = b.kind
    /\ a.h = b.h
    /\ a.plug = b.plug
    /\ (a.kind = "node" => a.inst = b.inst)

\* a.isInstanceOf(b): both are paths to one node
IsInstanceOf(a, b) == a.kind = "node" /\ b.kind = "node" /\ a.h = b.h

TokCode(tok) ==
    CASE tok = Bar -> 1
      [] tok = Dot -> 2
      [] tok = "earth" -> 3
      [] tok = "moon" -> 4
      [] tok = "persp" -> 5
      [] tok = "sun" -> 6
      [] tok = "translate" -> 7
      [] tok = "translateX" -> 8
      [] OTHER -> 9

HashBase == 10

RECURSIVE NameHashAcc(_, _)
NameHashAcc(s, acc) ==
    IF s = <<>> THEN acc ELSE NameHashAcc(Tail(s), acc * HashBase + TokCode(Head(s)))

\* hash of a name string
NameHash(s) == NameHashAcc(s, 0)

SessionStride == 100

\* the unique id Maya 2009 gives a node while the scene is open
Uid(h) == session * SessionStride + h

\* a hash made from the name on every host
NodeHash_byName(r) == NameHash(FullPathName(r.h, r.inst))

\* a hash made from the unique id on every host
NodeHash_byUid(r) == Uid(r.h)

\* DependNode.__hash__
NodeHash(r) ==
    IF hostHasUid THEN Uid(r.h) ELSE NameHash(FullPathName(r.h, r.inst))

\* Attribute.__hash__: the owning node and the plug
AttrHash(r) ==
    IF hostHasUid THEN Uid(r.h) * HashBase + TokCode(r.plug)
    ELSE NameHash(FullPathName(r.h, 1) \o <<Dot, r.plug>>)

Hash(r) == IF r.kind = "node" THEN NodeHash(r) ELSE AttrHash(r)


(***************************************************************************)
(* The package namespace and the plugin callbacks                          *)
(***************************************************************************)
\* the most load callbacks that generate objects
MaxGenerations == 3

Plugins == {"pluginA", "pluginB", "pluginC"}

\* names the package binds when it is imported
CoreNames == {"ls", "PyNode"}

\* the commands and node types a plugin registers with the host; two plugins
\* may register the same name, and a plugin may register a name the package
\* already binds
Provides(p) ==
    CASE p = "pluginA" -> {"cmdA", "NodeA", "shared"}
      [] p = "pluginB" -> {"cmdB", "shared"}
      [] OTHER -> {"cmdC", "ls"}

\* the host commands whose names would shadow builtins of the language
Conflicting == {"file", "filter", "eval", "help", "quit"}

\* the commands of the host's raw command module maya.cmds
RawCommands == {"ls"} \cup Conflicting

\* the names __init__.py binds to modules and functions of its own
ModuleNames == {"factories", "api", "pymel_test", "cmds", "_test"}

Names == CoreNames \cup ModuleNames \cup Conflicting \cup UNION {Provides(p) : p \in Plugins}

Unbound == [owner |-> "", gen |-> 0]

NoEvent == [kind |-> "none", plugin |-> "", repeat |-> FALSE, changed |-> {}]

\* the object a name is bound to by the statements of __init__.py
Bound(owner) == [owner |-> owner, gen |-> 0]

\* the statements of __init__.py, in the order of the file
BootProgram ==
    <<"mayahook", "mayaInit", "factories", "api", "core", "pymel_test",
      "installCallbacks", "cmds", "_test">>

\* a file that installs the callbacks before it imports the object model
After_callbacksFirst(stmt) ==
    LET prog == <<"mayahook", "mayaInit", "factories", "api", "installCallbacks", "core",
                  "pymel_test", "cmds", "_test">>
        k == CHOOSE i \in 1..Len(prog) : prog[i] = stmt
    IN IF k = Len(prog) THEN "done" ELSE prog[k + 1]

\* the statement that runs once stmt has completed
After(stmt) ==
    LET k == CHOOSE i \in 1..Len(BootProgram) : BootProgram[i] = stmt
    IN IF k = Len(BootProgram) THEN "done" ELSE BootProgram[k + 1]

\* an assert that lets a false value pass
Asserted_ignored(ok, stmt) == After(stmt)

\* assert ok: the import goes on when ok is true and is aborted by the
\* AssertionError when it is not
Asserted(ok, stmt) == IF ok THEN After(stmt) ELSE "aborted"

\* the public names `from core import *` brings: the object model and the
\* wrapped commands, without the conflicting commands, and the name cmds
\* when a submodule of core has bound it to its own command module
CoreExports == CoreNames \cup (IF coreCmds THEN {"cmds"} ELSE {})

\* the import of the package begins
BootInit ==
    /\ bootPc = BootProgram[1]
    /\ bootLog = <<>>
    /\ mayaInitOk \in BOOLEAN
    /\ coreCmds \in BOOLEAN
    /\ installed = FALSE
    /\ namespace = [n \in Names |-> Unbound]
    /\ pluginData = [p \in Plugins |-> {}]
    /\ nextObj = 1
    /\ lastEv = NoEvent
    /\ prevNs = namespace

\* a statement of __init__.py has completed
Completed(stmt, next) ==
    /\ bootLog' = Append(bootLog, stmt)
    /\ bootPc' = next
    /\ UNCHANGED <<mayaInitOk, coreCmds>>
    /\ UNCHANGED outsideBoot

\* from mayahook import mayaInit as _mayaInit
ImportMayahook ==
    /\ bootPc = "mayahook"
    /\ Completed("mayahook", After("mayahook"))
    /\ UNCHANGED <<namespace, installed>>

\* assert _mayaInit()
AssertMayaInit ==
    /\ bootPc = "mayaInit"
    /\ Completed("mayaInit", Asserted(mayaInitOk, "mayaInit"))
    /\ UNCHANGED <<namespace, installed>>

\* import core.pmtypes.factories as factories
ImportFactories ==
    /\ bootPc = "factories"
    /\ Completed("factories", After("factories"))
    /\ namespace' = [namespace EXCEPT !["factories"] = Bound("core.pmtypes.factories")]
    /\ UNCHANGED installed

\* import api
ImportApi ==
    /\ bootPc = "api"
    /\ Completed("api", After("api"))
    /\ namespace' = [namespace EXCEPT !["api"] = Bound("api")]
    /\ UNCHANGED installed

\* from core import *
FromCoreImportAll ==
    /\ bootPc = "core"
    /\ Completed("core", After("core"))
    /\ namespace' = [n \in Names |-> IF n \in CoreExports
                                      THEN Bound(IF n = "cmds" THEN "pmcmds" ELSE "core")
                                      ELSE namespace[n]]
    /\ UNCHANGED installed

\* from util.test import pymel_test
ImportPymelTest ==
    /\ bootPc = "pymel_test"
    /\ Completed("pymel_test", After("pymel_test"))
    /\ namespace' = [namespace EXCEPT !["pymel_test"] = Bound("util.test")]
    /\ UNCHANGED installed

\* _module = __import__(__name__); factories.installCallbacks(_module)
InstallCallbacks ==
    /\ bootPc = "installCallbacks"
    /\ Completed("installCallbacks", After("installCallbacks"))
    /\ installed' = TRUE
    /\ UNCHANGED namespace

\* an import that leaves a name that is bound already as it is
CmdsBinding_keep(ns) == IF ns["cmds"] = Unbound THEN Bound("maya.cmds") ELSE ns["cmds"]

\* the module the name cmds is bound to by `import maya.cmds as cmds`
CmdsBinding(ns) == Bound("maya.cmds")

\* import maya.cmds as cmds
ImportMayaCmds ==
    /\ bootPc = "cmds"
    /\ Completed("cmds", After("cmds"))
    /\ namespace' = [namespace EXCEPT !["cmds"] = CmdsBinding(namespace)]
    /\ UNCHANGED installed

\* def _test(): ..., the last statement of an import of the package
DefineTest ==
    /\ bootPc = "_test"
    /\ Completed("_test", After("_test"))
    /\ namespace' = [namespace EXCEPT !["_test"] = Bound("pymel")]
    /\ UNCHANGED installed

\* the namespace a completed import leaves
LoadedNamespace ==
    [n \in Names |->
        CASE n \in CoreNames -> Bound("core")
          [] n = "factories" -> Bound("core.pmtypes.factories")
          [] n = "api" -> Bound("api")
          [] n = "pymel_test" -> Bound("util.test")
          [] n = "cmds" -> Bound("maya.cmds")
          [] n = "_test" -> Bound("pymel")
          [] OTHER -> Unbound]

\* the namespace once the package is imported and its callbacks are installed
PackageLoaded ==
    /\ bootPc = "done"
    /\ bootLog = BootProgram
    /\ mayaInitOk = TRUE
    /\ coreCmds = FALSE
    /\ installed = TRUE
    /\ namespace = LoadedNamespace
    /\ pluginData = [p \in Plugins |-> {}]
    /\ nextObj = 1
    /\ lastEv = NoEvent
    /\ prevNs = namespace

\* a load callback that generates and binds every name of the plugin anew
Contributed_all(p) == Provides(p)

\* the names a load of plugin p contributes: those of its names that the
\* namespace does not bind yet
Contributed(p) == {n \in Provides(p) : namespace[n] = Unbound}

\* the event a callback leaves behind; repeat tells that the callback before
\* it was the same one for the same plugin
Event(kind, p, names) ==
    [kind |-> kind, plugin |-> p,
     repeat |-> (lastEv.kind = kind /\ lastEv.plugin = p),
     changed |-> names]

\* the callback the host runs when plugin p is loaded: the objects for the
\* contributed names are generated and merged into the namespace
PluginLoaded(p) ==
    /\ installed
    /\ LET new == Contributed(p)
       IN IF new = {}
          THEN UNCHANGED <<namespace, pluginData, nextObj>>
          ELSE /\ nextObj <= MaxGenerations
               /\ namespace' = [n \in Names |-> IF n \in new
                                                THEN [owner |-> p, gen |-> nextObj]
                                                ELSE namespace[n]]
               /\ pluginData' = [pluginData EXCEPT ![p] = @ \cup new]
               /\ nextObj' = nextObj + 1
    /\ lastEv' = Event("load", p, Contributed(p))
    /\ prevNs' = namespace
    /\ UNCHANGED outsidePlugin

\* an unload callback that removes every name the plugin registers
Removed_provided(p) == Provides(p)

\* the names an unload of plugin p removes: those its load added
Removed(p) == pluginData[p]

\* the callback the host runs when plugin p is unloaded: the names its load
\* added are removed
PluginUnloaded(p) ==
    /\ installed
    /\ namespace' = [n \in Names |-> IF n \in Removed(p) THEN Unbound ELSE namespace[n]]
    /\ pluginData' = [pluginData EXCEPT ![p] = {}]
    /\ lastEv' = Event("unload", p, Removed(p))
    /\ prevNs' = namespace
    /\ UNCHANGED nextObj
    /\ UNCHANGED outsidePlugin

(***************************************************************************)
(* examples/setVertexColor.py: doIt(obj)                                   *)
(***************************************************************************)
\* the most vertices of a mesh, edges at a vertex, and calls of doIt
MaxVerts == 2
MaxEdges == 3
MaxCalls == 2

\* numbers are fractions <<numerator, denominator>> in lowest terms
RECURSIVE Gcd(_, _)
Gcd(a, b) == IF b = 0 THEN a ELSE Gcd(b, a % b)

Abs(a) == IF a < 0 THEN -a ELSE a

Frac(n, d) ==
    LET g == Gcd(Abs(n), d)
    IN IF n = 0 THEN <<0, 1>> ELSE <<n \div g, d \div g>>

Zero == Frac(0, 1)

\* a <= 0.0
NotPositive(a) == a[1] <= 0

\* the edge lengths and the blue channels the meshes are built from
Lengths == {2, 4, 6}

PriorBlues == {Frac(-1, 1), Zero, Frac(1, 2)}

RECURSIVE SeqsUpTo(_, _)
SeqsUpTo(S, n) ==
    IF n = 0 THEN {<<>>}
    ELSE LET shorter == SeqsUpTo(S, n - 1)
         IN shorter \cup {Append(q, x) : q \in {t \in shorter : Len(t) = n - 1}, x \in S}

EdgeLists == SeqsUpTo(Lengths, MaxEdges)

\* Color(r, g, b)
Color(r, g, b) == [r |-> r, g |-> g, b |-> b]

\* the value of the class constant Color.black
BlackValue == Color(Zero, Zero, Zero)

\* the object Color.black names when the constant is one shared object
BlackId == 0

ObjIds == 0..MaxVerts

NoObj == [r |-> <<>>, g |-> <<>>, b |-> <<>>]

NumVerts == Len(edges)

\* doIt has not been called: some mesh with vertex colors, and Color.black
\* black.  Whether Color.black gives one shared object or a new Color on
\* each access is decided by pymel.core.datatypes
MeshInit ==
    /\ edges \in SeqsUpTo(EdgeLists, MaxVerts)
    /\ vcolor \in [1..Len(edges) -> {Color(Zero, Zero, b) : b \in PriorBlues}]
    /\ colorSets = <<>>
    /\ updated = FALSE
    /\ display = FALSE
    /\ blackShared \in BOOLEAN
    /\ heap = [o \in ObjIds |-> IF o = BlackId THEN BlackValue ELSE NoObj]
    /\ colors = <<>>
    /\ idx = 0
    /\ pc = "idle"
    /\ log = <<>>
    /\ calls = 0

\* no mesh is worked on
MeshIdle ==
    /\ edges = <<>>
    /\ vcolor = <<>>
    /\ colorSets = <<>>
    /\ updated = FALSE
    /\ display = FALSE
    /\ blackShared = FALSE
    /\ heap = [o \in ObjIds |-> IF o = BlackId THEN BlackValue ELSE NoObj]
    /\ colors = <<>>
    /\ idx = 0
    /\ pc = "idle"
    /\ log = <<>>
    /\ calls = 0

\* totalLen after the inner loop over the edges
RECURSIVE TotalLen(_)
TotalLen(edgs) == IF edgs = <<>> THEN 0 ELSE Head(edgs) + TotalLen(Tail(edgs))

\* avgLen = totalLen / edgCnt, for edgCnt > 0
AvgLen(edgs) == Frac(TotalLen(edgs), Len(edgs))

\* the object `color = Color.black` names in the iteration for vertex i, and
\* the heap once it is there
BlackObject(i) == IF blackShared THEN BlackId ELSE i

WithBlack(i) == IF blackShared THEN heap ELSE [heap EXCEPT ![i] = BlackValue]

\* doIt(obj) is called: obj.createColorSet('edgeLength'); colors = []
DoItCall ==
    /\ pc \in {"idle", "raised"}
    /\ calls < MaxCalls
    /\ calls' = calls + 1
    /\ colorSets' = Append(colorSets, "edgeLength")
    /\ colors' = <<>>
    /\ heap' = [o \in ObjIds |-> IF o = BlackId THEN heap[o] ELSE NoObj]
    /\ idx' = 1
    /\ log' = <<"createColorSet">>
    /\ pc' = "loop"
    /\ UNCHANGED <<edges, vcolor, updated, display, blackShared>>
    /\ UNCHANGED outsideDoIt

\* a division that gives a number for every divisor
DivisionRaises_never(edgCnt) == FALSE

\* totalLen / edgCnt raises ZeroDivisionError
DivisionRaises(edgCnt) == edgCnt = 0

\* one iteration of `for i, vtx in enumerate(obj.vtx)`
DoItVertex ==
    /\ pc = "loop"
    /\ idx <= NumVerts
    /\ LET edgs == edges[idx]
           currColor == vcolor[idx]
           color == BlackObject(idx)
           black == WithBlack(idx)[color]
           avgLen == AvgLen(edgs)
       IN IF DivisionRaises(Len(edgs))
          THEN /\ pc' = "raised"
               /\ log' = Append(log, "ZeroDivisionError")
               /\ UNCHANGED <<heap, colors, idx>>
          ELSE /\ heap' = [WithBlack(idx) EXCEPT ![color] =
                              Color(avgLen, black.g,
                                    IF NotPositive(currColor.b) THEN avgLen ELSE black.b)]
               /\ colors' = Append(colors, color)
               /\ idx' = idx + 1
               /\ log' = Append(log, "vtx")
               /\ pc' = "loop"
    /\ UNCHANGED <<edges, vcolor, colorSets, updated, display, blackShared, calls>>
    /\ UNCHANGED outsideDoIt

\* a loop that is left after its first iteration
LoopDone_early(i) == i > 1

\* `for i, vtx in enumerate(obj.vtx)` is exhausted: the iterations for all
\* vertices are over
LoopDone(i) == i > NumVerts

\* print len(colors); obj.setColors( colors )
DoItSetColors ==
    /\ pc = "loop"
    /\ LoopDone(idx)
    /\ vcolor' = [i \in 1..NumVerts |->
                      IF i <= Len(colors) THEN heap[colors[i]] ELSE vcolor[i]]
    /\ log' = Append(log, "setColors")
    /\ pc' = "update"
    /\ UNCHANGED <<edges, colorSets, updated, display, blackShared, heap, colors, idx, calls>>
    /\ UNCHANGED outsideDoIt

\* obj.updateSurface()
DoItUpdateSurface ==
    /\ pc = "update"
    /\ updated' = TRUE
    /\ log' = Append(log, "updateSurface")
    /\ pc' = "display"
    /\ UNCHANGED <<edges, vcolor, colorSets, display, blackShared, heap, colors, idx, calls>>
    /\ UNCHANGED outsideDoIt

\* polyColorPerVertex( obj, e=1, colorDisplayOption=1 ), and doIt returns
DoItDisplay ==
    /\ pc = "display"
    /\ display' = TRUE
    /\ log' = Append(log, "polyColorPerVertex")
    /\ pc' = "idle"
    /\ UNCHANGED <<edges, vcolor, colorSets, updated, blackShared, heap, colors, idx, calls>>
    /\ UNCHANGED outsideDoIt

(***************************************************************************)
(* The factory: generation of classes and commands from the metadata       *)
(***************************************************************************)
\* the most entries of a catalogue
MaxCatalogue == 3

\* the commands and node types the metadata may describe
EntryNames == {"ls", "polySphere", "transform"}

\* the metadata of an entry is well formed, malformed or missing
EntryStates == {"ok", "malformed", "missing"}

Entries == [name : EntryNames, state : EntryStates]

\* generation has not begun: some catalogue without a name described twice
FactoryInit ==
    /\ catalogue \in SeqsUpTo(Entries, MaxCatalogue)
    /\ \A i, j \in 1..Len(catalogue) : catalogue[i].name = catalogue[j].name => i = j
    /\ genIdx = 1
    /\ generated = {}
    /\ warnings = <<>>
    /\ genPc = "generating"

\* the factory has generated its catalogue
FactoryIdle ==
    /\ catalogue = <<>>
    /\ genIdx = 1
    /\ generated = {}
    /\ warnings = <<>>
    /\ genPc = "done"

\* a generation that gives up at the first entry it cannot use
AfterEntry_abort(state) == IF state = "ok" THEN "generating" ELSE "failed"

\* the position of the generation after an entry: an entry that cannot be
\* used is skipped and the generation goes on
AfterEntry(state) == "generating"

\* the next entry of the catalogue is generated, or skipped with a warning
GenerateEntry ==
    /\ genPc = "generating"
    /\ genIdx <= Len(catalogue)
    /\ LET e == catalogue[genIdx]
       IN IF e.state = "ok"
          THEN /\ generated' = generated \cup {e.name}
               /\ UNCHANGED warnings
          ELSE /\ warnings' = Append(warnings, e.name)
               /\ UNCHANGED generated
    /\ genPc' = AfterEntry(catalogue[genIdx].state)
    /\ genIdx' = genIdx + 1
    /\ UNCHANGED catalogue
    /\ UNCHANGED outsideFactory

\* the catalogue is exhausted
GenerateDone ==
    /\ genPc = "generating"
    /\ genIdx > Len(catalogue)
    /\ genPc' = "done"
    /\ UNCHANGED <<catalogue, genIdx, generated, warnings>>
    /\ UNCHANGED outsideFactory

(***************************************************************************)
(* _test(): doctest.testmod(verbose=True) on the docstring of the package  *)
(***************************************************************************)
\* the most examples of a docstring
MaxExamples == 3

\* what running an example gives, against the text recorded after it
Outcomes == {"same", "differs"}

\* an example: whether it carries the option +SKIP, and its outcome if run
Examples == [skip : BOOLEAN, outcome : Outcomes]

\* _test() has not been called: some docstring
TestInit ==
    /\ examples \in SeqsUpTo(Examples, MaxExamples)
    /\ exIdx = 1
    /\ report = <<>>
    /\ testPc = "idle"

\* no run of the examples
TestIdle ==
    /\ examples = <<>>
    /\ exIdx = 1
    /\ report = <<>>
    /\ testPc = "idle"

\* a runner that stops at the first example that fails
NextExample_stop(k, verdict) == IF verdict = "failed" THEN Len(examples) + 1 ELSE k + 1

\* the example that is run after example k
NextExample(k, verdict) == k + 1

\* what the runner reports for a run example
Verdict(ex) == IF ex.outcome = "same" THEN "ok" ELSE "failed"

\* _test() is called: doctest.testmod(verbose=True)
CallTest ==
    /\ testPc = "idle"
    /\ testPc' = "running"
    /\ UNCHANGED <<examples, exIdx, report>>
    /\ UNCHANGED outsideTest

\* the runner comes to the next example: one marked +SKIP is passed over,
\* any other is run and reported
RunExample ==
    /\ testPc = "running"
    /\ exIdx <= Len(examples)
    /\ LET ex == examples[exIdx]
       IN IF ex.skip
          THEN /\ UNCHANGED report
               /\ exIdx' = exIdx + 1
          ELSE /\ report' = Append(report, [example |-> exIdx, verdict |-> Verdict(ex)])
               /\ exIdx' = NextExample(exIdx, Verdict(ex))
    /\ UNCHANGED <<examples, testPc>>
    /\ UNCHANGED outsideTest

\* the runner has passed the last example and prints its summary
FinishTest ==
    /\ testPc = "running"
    /\ exIdx > Len(examples)
    /\ testPc' = "done"
    /\ UNCHANGED <<examples, exIdx, report>>
    /\ UNCHANGED outsideTest

(***************************************************************************)
(* Scene operations                                                        *)
(***************************************************************************)
vars == <<sceneVars, pluginVars, meshVars, bootVars, genVars, testVars>>

SceneInit ==
    /\ session = 0
    /\ node = [h \in Handles |-> NoNode]
    /\ refs = [v \in Vars |-> NoRef]
    /\ dict = {}
    /\ ret = NoRet
    /\ PackageLoaded
    /\ MeshIdle
    /\ FactoryIdle
    /\ TestIdle

\* the handle the host gives the next node it creates
NewHandle == CHOOSE h \in Handles \ Alive : \A k \in Handles \ Alive : h <= k

\* the scene with one more node, of name n and type ty, at the root
WithNode(nd, h, n, ty) ==
    [nd EXCEPT ![h] = [alive |-> TRUE, name |-> n, type |-> ty, parents |-> <<World>>]]

\* the interpreter is at its prompt: the last statement's result was shown
Ready == ret.op = "none"

\* the result of the last statement has been shown: back to the prompt
Prompt ==
    /\ ~Ready
    /\ ret' = NoRet
    /\ UNCHANGED <<hostHasUid, session, node, refs, dict>>
    /\ UNCHANGED outsideScene

\* a creation command run in the host: a new node at the root of the scene
CreateNode(n, ty) ==
    /\ Ready
    /\ n \notin UsedNames
    /\ Alive # Handles
    /\ node' = WithNode(node, NewHandle, n, ty)
    /\ ret' = NoRet
    /\ UNCHANGED <<hostHasUid, session, refs, dict>>
    /\ UNCHANGED outsideScene

\* group(h, name=n): a new transform n at the root, with the root node h
\* as its child
Group(h, n) ==
    /\ Ready
    /\ h \in Alive
    /\ n \notin UsedNames
    /\ Alive # Handles
    /\ node[h].parents = <<World>>
    /\ Children(h) = {}
    /\ node' = [WithNode(node, NewHandle, n, "transform") EXCEPT ![h].parents = <<NewHandle>>]
    /\ ret' = NoRet
    /\ UNCHANGED <<hostHasUid, session, refs, dict>>
    /\ UNCHANGED outsideScene

\* instance(g, name=n): a new transform n at the root that shares the
\* children of the group g: each child gets one more DAG path
Instance(g, n) ==
    /\ Ready
    /\ g \in Alive
    /\ n \notin UsedNames
    /\ Alive # Handles
    /\ Children(g) # {}
    /\ node' = [h \in Handles |->
                  IF h = NewHandle
                  THEN [alive |-> TRUE, name |-> n, type |-> "transform", parents |-> <<World>>]
                  ELSE IF h \in Children(g)
                  THEN [node[h] EXCEPT !.parents = Append(@, NewHandle)]
                  ELSE node[h]]
    /\ ret' = NoRet
    /\ UNCHANGED <<hostHasUid, session, refs, dict>>
    /\ UNCHANGED outsideScene

\* the scene after node h is given the name n
Renamed(h, n) == [node EXCEPT ![h].name = n]

\* node.rename(n) through the PyNode held in variable v: the host renames
\* the node, the object refreshes its cached name and returns itself
RenameRef(v, n) ==
    /\ Ready
    /\ v \in Held /\ refs[v].kind = "node"
    /\ n \notin UsedNames
    /\ LET h == refs[v].h
           new == Renamed(h, n)
           obj == [refs[v] EXCEPT !.cached = NativeNameOf(new, h, refs[v].inst)]
       IN /\ node' = new
          /\ refs' = [refs EXCEPT ![v] = obj]
          /\ ret' = [op |-> "rename", var |-> v, new |-> n, obj |-> obj]
    /\ UNCHANGED <<hostHasUid, session, dict>>
    /\ UNCHANGED outsideScene

\* a rename done through mel or the UI: no PyNode is told
RenameExternal(h, n) ==
    /\ Ready
    /\ h \in Alive
    /\ n \notin UsedNames
    /\ node' = Renamed(h, n)
    /\ ret' = NoRet
    /\ UNCHANGED <<hostHasUid, session, refs, dict>>
    /\ UNCHANGED outsideScene

\* a bare node name that more than one DAG path answers to is ambiguous
Ambiguous(name) ==
    \E h \in Alive : Len(node[h].parents) > 1 /\ Split(name, Dot)[1] = <<node[h].name>>

\* the handlers that catch an exception of class exc
Catchers(exc) == {hd \in ExcClasses : Catches(hd, exc)}

\* no variable: the value of an expression statement is dropped
NoVar == 0

\* refs after `v = obj`; with no variable the object is dropped
Assign(v, obj) == IF v = NoVar THEN refs ELSE [refs EXCEPT ![v] = obj]

\* v = PyNode(name), or the expression statement PyNode(name)
Construct(v, name) ==
    /\ Ready
    /\ ~Ambiguous(name)
    /\ LET res == PyNode(name)
       IN IF res.exc = "none"
          THEN /\ refs' = Assign(v, res.obj)
               /\ ret' = [op |-> "PyNode", arg |-> name, exc |-> "none", obj |-> res.obj]
          ELSE /\ refs' = refs
               /\ ret' = [op |-> "PyNode", arg |-> name, exc |-> res.exc,
                          msg |-> res.arg, catchers |-> Catchers(res.exc)]
    /\ UNCHANGED <<hostHasUid, session, node, dict>>
    /\ UNCHANGED outsideScene

\* the text of the error raised by shorthand access
NoMemberText == " has no attribute or method named "

\* no node to hand a lookup on to
NoShape == 0

\* the shape children of a transform
Shapes(h) == {c \in Children(h) : node[c].type = "camera"}

\* a chain of lookups that also leads from a shape back to its transform
ShapeOf_chained(h) ==
    IF node[h].type = "transform"
    THEN IF Shapes(h) = {} THEN NoShape ELSE CHOOSE c \in Shapes(h) : \A d \in Shapes(h) : c <= d
    ELSE IF node[h].parents[1] # World THEN node[h].parents[1] ELSE NoShape

\* the node a failed lookup on node h is handed on to: the shape of a
\* transform, when it has one; no other node hands a lookup on
ShapeOf(h) ==
    IF node[h].type = "transform" /\ Shapes(h) # {}
    THEN CHOOSE c \in Shapes(h) : \A d \in Shapes(h) : c <= d
    ELSE NoShape

\* the member m as the node s answers it for the transform h, or a failure
Forwarded(h, s, m) ==
    LET ty == node[s].type
        p == ResolvePlug(ty, <<m>>, NoPlug)
        i == CHOOSE k \in 1..Len(node[s].parents) : node[s].parents[k] = h
    IN IF p # BadPlug
       THEN [exc |-> "none", obj |-> AttrRef(s, i, p, NativeName(s, i) \o <<Dot, m>>)]
       ELSE IF m \in MethodsOf(ty)
       THEN [exc |-> "none", obj |-> [kind |-> "method", name |-> m, h |-> s]]
       ELSE [exc |-> "AttributeError"]

\* x.attr(m) (explicit) or x.m (shorthand) on the PyNode held in v.  A node
\* looks m up among its attributes, then, in shorthand, among the methods
\* of its class; a transform then hands the lookup on to its shape
Access(v, m, explicit) ==
    /\ Ready
    /\ v \in Held
    /\ refs[v].kind = "node"
    /\ LET r == refs[v]
           ty == node[r.h].type
           p == ResolvePlug(ty, <<m>>, NoPlug)
           text == CurrentName(r) \o <<Dot, m>>
           call == [op |-> "access", var |-> v, member |-> m, explicit |-> explicit]
       IN ret' = IF p # BadPlug
                 THEN call @@ [exc |-> "none", obj |-> AttrRef(r.h, r.inst, p, text)]
                 ELSE IF explicit
                 THEN call @@ [exc |-> "MayaAttributeError", msg |-> text,
                               catchers |-> Catchers("MayaAttributeError")]
                 ELSE IF m \in MethodsOf(ty)
                 THEN call @@ [exc |-> "none",
                               obj |-> [kind |-> "method", name |-> m, h |-> r.h]]
                 ELSE IF ShapeOf(r.h) # NoShape
                         /\ Forwarded(r.h, ShapeOf(r.h), m).exc = "none"
                 THEN call @@ Forwarded(r.h, ShapeOf(r.h), m)
                 ELSE call @@ [exc |-> "AttributeError",
                               msg |-> Repr(r) \o <<NoMemberText, m>>,
                               catchers |-> Catchers("AttributeError")]
    /\ UNCHANGED <<hostHasUid, session, node, refs, dict>>
    /\ UNCHANGED outsideScene

\* string operations that work on the text the object was built with
Render_cached(v, text) ==
    /\ Ready
    /\ v \in Held
    /\ ret' = [op |-> "render", var |-> v, text |-> text,
               str |-> refs[v].cached,
               slice |-> Slice(refs[v].cached, 1),
               split |-> Split(refs[v].cached, Bar),
               eq |-> (refs[v].cached = text)]
    /\ UNCHANGED <<hostHasUid, session, node, refs, dict>>
    /\ UNCHANGED outsideScene

\* the string operations on the PyNode held in v: str(x), x[0:1],
\* x.split('|'), x == text
Render(v, text) ==
    /\ Ready
    /\ v \in Held
    /\ ret' = [op |-> "render", var |-> v, text |-> text,
               str |-> CurrentName(refs[v]),
               slice |-> Slice(CurrentName(refs[v]), 1),
               split |-> Split(CurrentName(refs[v]), Bar),
               eq |-> (CurrentName(refs[v]) = text)]
    /\ UNCHANGED <<hostHasUid, session, node, refs, dict>>
    /\ UNCHANGED outsideScene

\* a == b, hash(a) == hash(b), a.isInstanceOf(b) for two PyNodes
Compared(a, b) ==
    [op |-> "compare", a |-> a, b |-> b, eq |-> Eq(a, b),
     hashEq |-> (Hash(a) = Hash(b)), inst |-> IsInstanceOf(a, b)]

\* refs[v] == PyNode(name): a held node against a node built from a name
CompareNodes(v, name) ==
    /\ Ready
    /\ v \in Held
    /\ ~Ambiguous(name)
    /\ PyNode(name).exc = "none"
    /\ ret' = Compared(refs[v], PyNode(name).obj)
    /\ UNCHANGED <<hostHasUid, session, node, refs, dict>>
    /\ UNCHANGED outsideScene

\* PyNode(name1) == PyNode(name2): two attributes built from dotted names
CompareAttrs(name1, name2) ==
    /\ Ready
    /\ ~Ambiguous(name1) /\ ~Ambiguous(name2)
    /\ PyNode(name1).exc = "none" /\ PyNode(name2).exc = "none"
    /\ ret' = Compared(PyNode(name1).obj, PyNode(name2).obj)
    /\ UNCHANGED <<hostHasUid, session, node, refs, dict>>
    /\ UNCHANGED outsideScene

\* the API object a dictionary key wraps
Key(r) == [kind |-> r.kind, h |-> r.h, inst |-> r.inst, plug |-> r.plug]

\* the entries of the dictionary that a lookup with the PyNode r finds: the
\* stored hash is the hash of r and the stored key equals r
Found(r) == {e \in dict : e.hash = Hash(r) /\ Eq(e.key, r)}

\* d[x] = x.name() for the PyNode x held in v
DictInsert(v) ==
    /\ Ready
    /\ v \in Held
    /\ LET r == refs[v]
           entry == [key |-> Key(r), hash |-> Hash(r), value |-> CurrentName(r)]
       IN IF Found(r) # {}
          THEN dict' = (dict \ Found(r)) \cup {[e EXCEPT !.value = entry.value] : e \in Found(r)}
          ELSE /\ Cardinality(dict) < MaxDict
               /\ dict' = dict \cup {entry}
    /\ ret' = NoRet
    /\ UNCHANGED <<hostHasUid, session, node, refs>>
    /\ UNCHANGED outsideScene

\* d[x] for the PyNode x held in v
DictLookup(v) ==
    /\ Ready
    /\ v \in Held
    /\ LET r == refs[v]
       IN ret' = IF Found(r) # {}
                 THEN [op |-> "lookup", var |-> v, exc |-> "none",
                       value |-> (CHOOSE e \in Found(r) : TRUE).value]
                 ELSE [op |-> "lookup", var |-> v, exc |-> "KeyError", msg |-> Repr(r),
                       keyEq |-> (\E e \in dict : Eq(e.key, r))]
    /\ UNCHANGED <<hostHasUid, session, node, refs, dict>>
    /\ UNCHANGED outsideScene

\* the scene is closed and opened again: every node gets a new id, and the
\* objects of the closed scene are dropped
Reopen ==
    /\ Ready
    /\ session < MaxSessions
    /\ session' = session + 1
    /\ refs' = [v \in Vars |-> NoRef]
    /\ dict' = {}
    /\ ret' = NoRet
    /\ UNCHANGED <<hostHasUid, node>>
    /\ UNCHANGED outsideScene

(***************************************************************************)
(* Wrapped commands: listing and creation                                  *)
(***************************************************************************)
\* python values a command returns: None, a list, or one object
PyNone == [type |-> "NoneType", items |-> <<>>]

PyList(items) == [type |-> "list", items |-> items]

PyObject(obj) == [type |-> "instance", items |-> <<obj>>]

\* what the raw listing commands of the host return when nothing matches
RawEmpty == {PyNone, PyList(<<>>)}

\* the DAG paths of a set, in the order the host lists them
RECURSIVE PathSeq(_)
PathSeq(S) ==
    IF S = {} THEN <<>>
    ELSE LET first == CHOOSE x \in S :
                          \A y \in S : x[1] < y[1] \/ (x[1] = y[1] /\ x[2] <= y[2])
         IN <<first>> \o PathSeq(S \ {first})

\* the raw listing command: the names of the paths, or, with no match, what
\* the host returns for nothing
RawList(S, empty) ==
    IF S = {} THEN empty
    ELSE PyList([k \in 1..Cardinality(S) |-> NativeName(PathSeq(S)[k][1], PathSeq(S)[k][2])])

\* a wrapper that hands on what the raw command returned
Listed_raw(raw) ==
    IF raw.type = "NoneType" THEN raw
    ELSE PyList([k \in 1..Len(raw.items) |-> PyNode(raw.items[k]).obj])

\* a wrapped listing command: every name cast to its PyNode class, and an
\* empty list when the raw command found nothing
Listed(raw) ==
    IF raw.type = "NoneType" THEN PyList(<<>>)
    ELSE PyList([k \in 1..Len(raw.items) |-> PyNode(raw.items[k]).obj])

\* ls(type=ty)
Ls(ty, empty) ==
    /\ Ready
    /\ LET raw == RawList({hi \in Paths : node[hi[1]].type = ty}, empty)
       IN ret' = [op |-> "ls", arg |-> ty, raw |-> raw, value |-> Listed(raw)]
    /\ UNCHANGED <<hostHasUid, session, node, refs, dict>>
    /\ UNCHANGED outsideScene

\* listRelatives(h, children=True)
ListRelatives(h, empty) ==
    /\ Ready
    /\ h \in Alive
    /\ LET raw == RawList({hi \in Paths : node[hi[1]].parents[hi[2]] = h}, empty)
       IN ret' = [op |-> "listRelatives", arg |-> h, raw |-> raw, value |-> Listed(raw)]
    /\ UNCHANGED <<hostHasUid, session, node, refs, dict>>
    /\ UNCHANGED outsideScene

\* creation commands that always create one object: spaceLocator is wrapped
\* by hand, factoryCommand stands for a command wrapped by the creation
\* command factory
CreationCommands == {"spaceLocator", "factoryCommand"}

\* how the command is wrapped
WrappedBy(cmd) == IF cmd = "spaceLocator" THEN "custom" ELSE "factory"

\* the value a wrapped creation command returns for the one object it
\* created: the creation command factory has no option yet to take a single
\* object out of the list
Created(cmd, obj) ==
    IF WrappedBy(cmd) = "custom" THEN PyObject(obj) ELSE PyList(<<obj>>)

\* cmd(name=n) for a creation command that creates one transform
CreateCommand(cmd, n) ==
    /\ Ready
    /\ n \notin UsedNames
    /\ Alive # Handles
    /\ node' = WithNode(node, NewHandle, n, "transform")
    /\ ret' = [op |-> "create", cmd |-> cmd, type |-> "transform",
               value |-> Created(cmd, [kind |-> "node", h |-> NewHandle, inst |-> 1,
                                       plug |-> NoPlug, cached |-> <<n>>])]
    /\ UNCHANGED <<hostHasUid, session, refs, dict>>
    /\ UNCHANGED outsideScene

(***************************************************************************)
(* Names: creation, grouping, instancing, renaming, string operations      *)
(***************************************************************************)
NamesInit == SceneInit /\ hostHasUid = TRUE

NamesNext ==
    \/ \E n \in NodeNames : CreateNode(n, "transform")
    \/ \E h \in Handles, n \in NodeNames : Group(h, n)
    \/ \E g \in Handles, n \in NodeNames : Instance(g, n)
    \/ \E v \in Vars, n \in NodeNames : RenameRef(v, n)
    \/ \E h \in Handles, n \in NodeNames : RenameExternal(h, n)
    \/ \E v \in Vars, hi \in Paths : Construct(v, NativeName(hi[1], hi[2]))
    \/ \E v \in Held : Render(v, refs[v].cached)
    \/ Prompt

SpecNames == NamesInit /\ [][NamesNext]_vars

(***************************************************************************)
(* Existence errors: PyNode() on names that do not resolve, attribute      *)
(* access on members that do not exist                                     *)
(***************************************************************************)
ErrorsInit == SceneInit /\ hostHasUid = TRUE

\* the names the expression PyNode(name) is tried with
ErrorNames ==
    {np \o sfx :
        np \in {<<n>> : n \in NodeNames} \cup {FullPathName(hi[1], hi[2]) : hi \in Paths},
        sfx \in {<<>>, <<Dot, "t">>, <<Dot, "translateX">>, <<Dot, "spangle">>,
                 <<Dot, "translate", Dot, "translateX">>, <<Dot, "tx", Dot, "t">>}}

ErrorsNext ==
    \/ \E n \in NodeNames, ty \in NodeTypes : CreateNode(n, ty)
    \/ \E h \in Handles, n \in NodeNames : Group(h, n)
    \/ \E h \in Handles, n \in NodeNames : RenameExternal(h, n)
    \/ \E v \in Vars, hi \in Paths : Construct(v, NativeName(hi[1], hi[2]))
    \/ \E name \in ErrorNames : Construct(NoVar, name)
    \/ \E v \in Vars, m \in MemberNames, explicit \in BOOLEAN : Access(v, m, explicit)
    \/ Prompt

SpecErrors == ErrorsInit /\ [][ErrorsNext]_vars

(***************************************************************************)
(* Identity: equality, hashing and instances                               *)
(***************************************************************************)
IdentityInit == SceneInit /\ hostHasUid \in BOOLEAN

\* the path names of the scene
PathNames == {NativeName(hi[1], hi[2]) : hi \in Paths}

\* the attribute names two attributes are built from: every form of the
\* attributes of one node, through each of its DAG paths
AttrNames(h) ==
    {NativeName(h, i) \o sfx :
        i \in 1..Len(node[h].parents),
        sfx \in {<<Dot, "t">>, <<Dot, "translate">>, <<Dot, "tx">>, <<Dot, "translateX">>,
                 <<Dot, "translate", Dot, "translateX">>}}

IdentityNext ==
    \/ \E n \in NodeNames : CreateNode(n, "transform")
    \/ \E h \in Handles, n \in NodeNames : Group(h, n)
    \/ \E g \in Handles, n \in NodeNames : Instance(g, n)
    \/ \E h \in Handles, n \in NodeNames : RenameExternal(h, n)
    \/ \E v \in Vars, name \in PathNames : Construct(v, name)
    \/ \E v \in Vars, name \in PathNames : CompareNodes(v, name)
    \/ \E h \in Alive : \E name1, name2 \in AttrNames(h) : CompareAttrs(name1, name2)
    \/ Prompt

SpecIdentity == IdentityInit /\ [][IdentityNext]_vars

(***************************************************************************)
(* Hashing: PyNodes as dictionary keys                                     *)
(***************************************************************************)
HashInit == SceneInit /\ hostHasUid \in BOOLEAN

HashNext ==
    \/ \E n \in NodeNames : CreateNode(n, "transform")
    \/ \E h \in Handles, n \in NodeNames : Group(h, n)
    \/ \E v \in Vars, n \in NodeNames : RenameRef(v, n)
    \/ \E h \in Handles, n \in NodeNames : RenameExternal(h, n)
    \/ \E v \in Vars, name \in PathNames : Construct(v, name)
    \/ \E v \in Vars : DictInsert(v)
    \/ \E v \in Vars : DictLookup(v)
    \/ Reopen
    \/ Prompt

SpecHash == HashInit /\ [][HashNext]_vars

\* the name the host holds now for the object a PyNode wraps
HostName(r) ==
    LET p == node[r.h].parents
        own == IF Len(p) = 1 THEN <<node[r.h].name>>
               ELSE <<node[p[r.inst]].name, Bar, node[r.h].name>>
    IN IF r.kind = "node" THEN own ELSE own \o <<Dot, r.plug>>

\* C1: after a node is renamed, through a PyNode or in the host, every
\* PyNode of that node that was held before the rename and has not been
\* reassigned reads as the new name and no longer shows the old one, and
\* rename() returns the object it was called on, showing the new name
C1_RenameReflected ==
    [][/\ \A v \in Vars :
            (/\ refs[v].kind = "node"
             /\ refs'[v].kind = "node"
             /\ refs'[v].h = refs[v].h
             /\ refs'[v].inst = refs[v].inst
             /\ node'[refs[v].h].name # node[refs[v].h].name)
            => LET shown == CurrentName(refs[v])'
               IN /\ shown[Len(shown)] = node'[refs[v].h].name
                  /\ ~Contains(shown, node[refs[v].h].name)
       /\ ret'.op = "rename"
            => /\ refs'[ret'.var] = ret'.obj
               /\ Eq(ret'.obj, refs[ret'.var])
               /\ LET shown == CurrentName(refs[ret.var])'
                  IN shown[Len(shown)] = ret'.new]_vars

\* a held PyNode whose node was renamed behind its back (its cached name
\* is stale) and which reads as the name the host holds now
C1_Witness ==
    \E v \in Held :
        /\ refs[v].kind = "node"
        /\ refs[v].cached[Len(refs[v].cached)] # node[refs[v].h].name
        /\ CurrentName(refs[v]) = HostName(refs[v])

\* C2: every string operation on a PyNode (str, slicing, splitting,
\* comparison with text) works on the name the host holds now for the
\* wrapped object, not on the name cached in the PyNode
C2_RenderingIsCurrent ==
    ret.op = "render" =>
        LET cur == HostName(refs[ret.var])
        IN /\ ret.str = cur
           /\ ret.slice = <<cur[1]>>
           /\ Join(ret.split, Bar) = cur
           /\ \A k \in 1..Len(ret.split) : ~Contains(ret.split[k], Bar)
           /\ ret.eq = (ret.text = cur)

\* a string operation ran on a PyNode whose cached name is stale
C2_Witness ==
    /\ ret.op = "render"
    /\ refs[ret.var].cached # HostName(refs[ret.var])
    /\ ret.text = refs[ret.var].cached
    /\ ~ret.eq

\* the node part of a name: the text before its first dot
BasePart(name) == Split(name, Dot)[1]

\* some DAG path of the scene answers to the node path string
NodeExists(base) ==
    \E h \in Alive : \E i \in 1..Len(node[h].parents) :
        \/ base = HostName([kind |-> "node", h |-> h, inst |-> i])
        \/ base = <<Bar>> \o (IF node[h].parents[i] = World THEN <<>>
                              ELSE <<node[node[h].parents[i]].name, Bar>>) \o <<node[h].name>>

\* C3 as stated: PyNode(name) fails with MayaNodeError whenever the node
\* part of the name is not in the scene, dotted suffix or not, and with
\* MayaAttributeError when the node is there and the suffix names no
\* attribute of it
C3_Original ==
    (ret.op = "PyNode" /\ ret.exc # "none") =>
        /\ ~NodeExists(BasePart(ret.arg)) => ret.exc = "MayaNodeError"
        /\ NodeExists(BasePart(ret.arg)) => ret.exc = "MayaAttributeError"

\* C3, amended: PyNode(name) fails with MayaNodeError when the name has no
\* dotted suffix and names no node of the scene; a name with a dotted
\* suffix that does not resolve fails with MayaAttributeError, whether it is
\* the node or the attribute that is missing; a name whose node is missing
\* always raises, and an object is returned only for a node (and attribute)
\* that is in the scene
C3_ConstructionErrors ==
    ret.op = "PyNode" =>
        /\ ~NodeExists(BasePart(ret.arg)) => ret.exc \in {"MayaNodeError", "MayaAttributeError"}
        /\ ret.exc = "MayaNodeError" <=> (~NodeExists(ret.arg) /\ ~Contains(ret.arg, Dot))
        /\ ret.exc = "MayaAttributeError" => Contains(ret.arg, Dot)
        /\ Contains(ret.arg, "spangle") => ret.exc = "MayaAttributeError"
        /\ ret.exc # "none" => ret.msg = ret.arg
        /\ ret.exc = "none" =>
              /\ NodeExists(BasePart(ret.arg))
              /\ ret.obj.h \in Alive
              /\ ret.obj.inst \in 1..Len(node[ret.obj.h].parents)
              /\ node[ret.obj.h].name = BasePart(ret.arg)[Len(BasePart(ret.arg))]
              /\ ret.obj.kind = "attr" <=> Contains(ret.arg, Dot)
              /\ ret.obj.kind = "attr" =>
                    ret.obj.plug = (IF ret.arg[Len(ret.arg)] \in {"t", "translate"}
                                    THEN "translate" ELSE "translateX")

\* PyNode() was tried with a dotted name whose node is not in the scene and
\* failed with MayaAttributeError
C3_Witness ==
    /\ ret.op = "PyNode"
    /\ Contains(ret.arg, Dot)
    /\ ~NodeExists(BasePart(ret.arg))
    /\ ret.exc = "MayaAttributeError"

\* C4: a raised MayaNodeError or MayaAttributeError is caught by `except
\* MayaObjectError`; a MayaAttributeError is also caught by `except
\* AttributeError`; `except MayaNodeError` does not catch a
\* MayaAttributeError nor `except MayaAttributeError` a MayaNodeError
C4_ErrorHierarchy ==
    (ret.op \in {"PyNode", "access"} /\ ret.exc # "none") =>
        /\ ret.exc \in {"MayaNodeError", "MayaAttributeError"}
              => "MayaObjectError" \in ret.catchers
        /\ ret.exc = "MayaAttributeError"
              => ("AttributeError" \in ret.catchers /\ "MayaNodeError" \notin ret.catchers)
        /\ ret.exc = "MayaNodeError" => "MayaAttributeError" \notin ret.catchers

\* a MayaAttributeError was raised and the handlers that catch it are
\* those for itself, MayaObjectError, AttributeError and Exception
C4_Witness ==
    /\ ret.op = "PyNode"
    /\ ret.exc = "MayaAttributeError"
    /\ ret.catchers = {"MayaAttributeError", "MayaObjectError", "AttributeError", "Exception"}

\* C5: on a node, a member that is neither an attribute nor a method fails
\* in shorthand (x.m) with a plain AttributeError whose message names the
\* class of the node, its current name and the member, and in explicit
\* lookup (x.attr(m)) with a MayaAttributeError naming 'node.m'; a handler
\* for MayaAttributeError tells the two apart
C5_MemberErrors ==
    ret.op = "access" =>
        LET r == refs[ret.var]
            cls == IF node[r.h].type = "transform" THEN "Transform" ELSE "Camera"
            known == ret.member \in {"t", "translate", "tx", "translateX"}
            method == node[r.h].type = "transform" /\ ret.member = "getShape"
        IN /\ (~ret.explicit /\ ~known /\ ~method) =>
                 /\ ret.exc = "AttributeError"
                 /\ "AttributeError" \in ret.catchers
                 /\ "MayaAttributeError" \notin ret.catchers
                 /\ ret.msg = <<cls, "('">> \o HostName(r) \o <<"')", NoMemberText, ret.member>>
           /\ (ret.explicit /\ ~known) =>
                 /\ ret.exc = "MayaAttributeError"
                 /\ "MayaAttributeError" \in ret.catchers
                 /\ ret.msg = HostName(r) \o <<Dot, ret.member>>
           /\ (known \/ (method /\ ~ret.explicit)) => ret.exc = "none"

\* shorthand access to a missing member failed on a node that was renamed
\* after the PyNode was built
C5_Witness ==
    /\ ret.op = "access"
    /\ ~ret.explicit
    /\ ret.exc = "AttributeError"
    /\ refs[ret.var].cached # HostName(refs[ret.var])

\* the long name of the attribute a dotted name ends in
LeafLong(name) ==
    LET m == name[Len(name)]
    IN IF m \in {"t", "translate"} THEN "translate" ELSE "translateX"

C7_InstancesDistinct ==
    (ret.op = "compare" /\ ret.a.kind = "node" /\ ret.b.kind = "node") =>
        /\ (ret.a.h = ret.b.h /\ ret.a.inst # ret.b.inst) => (~ret.eq /\ ret.inst)
        /\ (ret.a.h = ret.b.h /\ ret.a.inst = ret.b.inst) => ret.eq
        /\ ret.a.h # ret.b.h => ~ret.eq

\* group1|mySphere was compared with group2|mySphere
C7_Witness ==
    /\ ret.op = "compare"
    /\ ret.a.kind = "node" /\ ret.b.kind = "node"
    /\ ret.a.h = ret.b.h /\ ret.a.inst # ret.b.inst
    /\ HostName(ret.a)[Len(HostName(ret.a))] = HostName(ret.b)[Len(HostName(ret.b))]
    /\ HostName(ret.a) # HostName(ret.b)
    /\ ~ret.eq /\ ret.inst

\* C21: one attribute reached through two DAG paths of an instanced node
\* gives two Attributes that are equal, although the PyNodes of the two
\* paths are unequal
C21_AttrAcrossInstances ==
    (/\ ret.op = "compare"
     /\ ret.a.kind = "attr" /\ ret.b.kind = "attr"
     /\ ret.a.h = ret.b.h
     /\ ret.a.plug = ret.b.plug
     /\ ret.a.inst # ret.b.inst)
    => /\ ret.eq
       /\ ~Eq(NodeRef(ret.a.h, ret.a.inst), NodeRef(ret.b.h, ret.b.inst))

\* group1|mySphere.t was compared with group2|mySphere.t
C21_Witness ==
    /\ ret.op = "compare"
    /\ ret.a.kind = "attr" /\ ret.b.kind = "attr"
    /\ ret.a.h = ret.b.h /\ ret.a.inst # ret.b.inst
    /\ ret.a.cached[Len(ret.a.cached)] = "t"
    /\ ret.b.cached[Len(ret.b.cached)] = "t"
    /\ ret.a.plug = ret.b.plug
    /\ ret.eq

\* the dictionary entries whose key is the DAG path the PyNode r wraps
EntriesOf(r) == {e \in dict : e.key.kind = r.kind /\ e.key.h = r.h /\ e.key.inst = r.inst}

\* the entry was stored when the node had another name than now
Stale(e) == e.value[Len(e.value)] # node[e.key.h].name

\* C8: on a host with the per-node id (Maya 2009), the hash of a held
\* PyNode does not change while the scene stays open, whatever is renamed;
\* a lookup with a PyNode whose node was stored as a key finds the value
\* stored before the rename; no two nodes of the scene share an id
C8_HashPersists ==
    /\ [](hostHasUid =>
            /\ (ret.op = "lookup" /\ EntriesOf(refs[ret.var]) # {}) =>
                  /\ ret.exc = "none"
                  /\ \E e \in EntriesOf(refs[ret.var]) : ret.value = e.value
            /\ \A h1, h2 \in Alive : h1 # h2 => Uid(h1) # Uid(h2))
    /\ [][\A v \in Vars :
                (/\ hostHasUid /\ session' = session
                 /\ refs[v].kind = "node" /\ refs'[v].kind = "node"
                 /\ refs'[v].h = refs[v].h)
                => Hash(refs[v])' = Hash(refs[v])]_vars

\* a key stored before its node was renamed was found after the rename
C8_Witness ==
    /\ hostHasUid
    /\ ret.op = "lookup"
    /\ ret.exc = "none"
    /\ ret.value[Len(ret.value)] # node[refs[ret.var].h].name

\* C9: on a host without the per-node id (Maya 2008), the hash of a PyNode
\* is made from its current full path name: it changes when the node is
\* renamed, and a lookup with a PyNode that was stored as a key before its
\* node was renamed raises KeyError, although the stored key and the PyNode
\* still compare equal
C9_NameHashBreaksKeys ==
    /\ []((/\ ~hostHasUid
            /\ ret.op = "lookup"
            /\ EntriesOf(refs[ret.var]) # {}
            /\ \A e \in EntriesOf(refs[ret.var]) : Stale(e))
           => (ret.exc = "KeyError" /\ ret.keyEq))
    /\ [][\A v \in Vars :
                (/\ ~hostHasUid
                 /\ refs[v].kind = "node" /\ refs'[v].kind = "node"
                 /\ refs'[v].h = refs[v].h /\ refs'[v].inst = refs[v].inst
                 /\ node'[refs[v].h].name # node[refs[v].h].name)
                => Hash(refs[v])' # Hash(refs[v])]_vars

\* a key stored before its node was renamed was looked up after the rename
\* and not found
C9_Witness ==
    /\ ~hostHasUid
    /\ ret.op = "lookup"
    /\ ret.exc = "KeyError"
    /\ ret.keyEq
    /\ \E e \in EntriesOf(refs[ret.var]) : Stale(e)

(***************************************************************************)
(* Plugins: the load and unload callbacks on the package namespace         *)
(***************************************************************************)
PluginInit == SceneInit /\ hostHasUid = TRUE

PluginNext ==
    \/ \E p \in Plugins : PluginLoaded(p)
    \/ \E p \in Plugins : PluginUnloaded(p)

SpecPlugin == PluginInit /\ [][PluginNext]_vars

\* C10: when the load callback runs for a plugin right after a load
\* callback for the same plugin, with no unload between them, it leaves the
\* namespace, the names recorded for every plugin and the objects they are
\* bound to as the first run left them
C10_LoadIdempotent ==
    [][(/\ lastEv.kind = "load"
        /\ lastEv'.kind = "load"
        /\ lastEv'.plugin = lastEv.plugin
        /\ lastEv'.repeat)
       => (/\ namespace' = namespace
           /\ pluginData' = pluginData
           /\ nextObj' = nextObj)]_vars

\* the load callback has run twice in sequence for a plugin whose names it
\* bound, while another plugin is loaded too
C10_Witness ==
    /\ lastEv.kind = "load"
    /\ lastEv.repeat
    /\ pluginData[lastEv.plugin] # {}
    /\ \E q \in Plugins \ {lastEv.plugin} : pluginData[q] # {}

DoItInit ==
    /\ hostHasUid = TRUE
    /\ session = 0
    /\ node = [h \in Handles |-> NoNode]
    /\ refs = [v \in Vars |-> NoRef]
    /\ dict = {}
    /\ ret = NoRet
    /\ PackageLoaded
    /\ MeshInit
    /\ FactoryIdle
    /\ TestIdle

DoItNext ==
    \/ DoItCall
    \/ DoItVertex
    \/ DoItSetColors
    \/ DoItUpdateSurface
    \/ DoItDisplay

SpecDoIt == DoItInit /\ [][DoItNext]_vars

\* the fraction a is the arithmetic mean of the lengths edgs
IsMeanOf(a, edgs) == a[1] * Len(edgs) = TotalLen(edgs) * a[2]

\* C12: the color doIt computes for a vertex has the mean length of the
\* edges at the vertex as its red channel; its blue channel is that mean
\* when the blue of the vertex's color before the call is <= 0, and is the
\* blue the vertex had before the call when that is > 0
C12_ColorOfVertex ==
    (pc = "loop" /\ colors # <<>>) =>
        LET i == Len(colors)
            c == heap[colors[i]]
        IN /\ IsMeanOf(c.r, edges[i])
           /\ NotPositive(vcolor[i].b) => IsMeanOf(c.b, edges[i])
           /\ ~NotPositive(vcolor[i].b) => c.b = vcolor[i].b

\* every vertex of the mesh has a connected edge
AllHaveEdges == \A i \in 1..NumVerts : Len(edges[i]) > 0

\* the events of a run of doIt over n vertices
RunEvents(n) ==
    <<"createColorSet">> \o [i \in 1..n |-> "vtx"]
        \o <<"setColors", "updateSurface", "polyColorPerVertex">>

IsPrefix(p, q) == Len(p) <= Len(q) /\ \A i \in 1..Len(p) : p[i] = q[i]

\* the first vertex without a connected edge
FirstBare == CHOOSE z \in 1..NumVerts :
                /\ Len(edges[z]) = 0
                /\ \A i \in 1..(z - 1) : Len(edges[i]) > 0

\* the events of a run of doIt that fails at vertex z
FailedEvents(z) ==
    <<"createColorSet">> \o [i \in 1..(z - 1) |-> "vtx"] \o <<"ZeroDivisionError">>

\* C23: on a mesh with a vertex that has no connected edge, a call of doIt
\* processes the vertices before the first such vertex and fails there with
\* a ZeroDivisionError; the colors are never written back, the surface is
\* never updated and the display of vertex colors is never enabled
C23_ZeroEdges ==
    (~AllHaveEdges /\ calls > 0) =>
        /\ pc \in {"loop", "raised"}
        /\ idx <= FirstBare
        /\ IsPrefix(log, FailedEvents(FirstBare))
        /\ (pc = "raised" <=> log = FailedEvents(FirstBare))
        /\ (pc = "raised" => idx = FirstBare)
        /\ ~updated /\ ~display

\* a call has failed at the second vertex, after the first was processed
C23_Witness ==
    /\ NumVerts = 2
    /\ Len(edges[1]) > 0 /\ Len(edges[2]) = 0
    /\ pc = "raised"
    /\ log = <<"createColorSet", "vtx", "ZeroDivisionError">>
    /\ ~updated /\ ~display

\* C22: on a mesh whose vertices all have a connected edge, the events of a
\* call of doIt are, in this order: the color set is created, each vertex is
\* processed, the colors are written back in one call whose list has one
\* entry per vertex in vertex order, the surface is updated, the display of
\* vertex colors is enabled; nothing is written back before the last vertex
\* is processed, and a call that has returned has done all of it
C22_EventOrder ==
    (AllHaveEdges /\ calls > 0) =>
        /\ IsPrefix(log, RunEvents(NumVerts))
        /\ (pc = "idle" => log = RunEvents(NumVerts))
        /\ (\E k \in 1..Len(log) : log[k] = "setColors") =>
              /\ idx = NumVerts + 1
              /\ Len(colors) = NumVerts
              /\ \A i \in 1..NumVerts : colors[i] = BlackObject(i)

\* a call on a mesh of two vertices with edges has returned
C22_Witness ==
    /\ NumVerts = 2
    /\ AllHaveEdges
    /\ calls > 0
    /\ pc = "idle"
    /\ log = RunEvents(2)
    /\ updated /\ display

ImportInit ==
    /\ hostHasUid = TRUE
    /\ session = 0
    /\ node = [h \in Handles |-> NoNode]
    /\ refs = [v \in Vars |-> NoRef]
    /\ dict = {}
    /\ ret = NoRet
    /\ MeshIdle
    /\ BootInit
    /\ FactoryIdle
    /\ TestIdle

ImportNext ==
    \/ ImportMayahook
    \/ AssertMayaInit
    \/ ImportFactories
    \/ ImportApi
    \/ FromCoreImportAll
    \/ ImportPymelTest
    \/ InstallCallbacks
    \/ ImportMayaCmds
    \/ DefineTest
    \/ \E p \in Plugins : bootPc = "done" /\ PluginLoaded(p)
    \/ \E p \in Plugins : bootPc = "done" /\ PluginUnloaded(p)

SpecImport == ImportInit /\ [][ImportNext]_vars

\* the statement has run
InLog(stmt) == \E k \in 1..Len(bootLog) : bootLog[k] = stmt

\* whenever the later statement of two neighbours of the sequence has run,
\* the earlier one has run before it
InOrder(steps) ==
    \A k \in 1..(Len(steps) - 1) :
        InLog(steps[k + 1]) =>
            \E i, j \in 1..Len(bootLog) :
                i < j /\ bootLog[i] = steps[k] /\ bootLog[j] = steps[k + 1]

C14_AbortOnFailedInit ==
    (InLog("mayaInit") /\ ~mayaInitOk) =>
        /\ bootPc = "aborted"
        /\ bootLog = <<"mayahook", "mayaInit">>
        /\ ~installed
        /\ \A n \in Names : namespace[n] = Unbound
        /\ lastEv = NoEvent
        /\ \A p \in Plugins : pluginData[p] = {}

\* the import was aborted by the failed assertion
C14_Witness ==
    /\ bootPc = "aborted"
    /\ ~mayaInitOk
    /\ InLog("mayaInit")

\* C15: once the import is complete, and whatever plugins are loaded and
\* unloaded after it, none of file, filter, eval, help, quit is bound in
\* the namespace, each of them is a command of the module bound to cmds,
\* and cmds is maya.cmds, also when core exported a cmds of its own
C15_ConflictingWithheld ==
    bootPc = "done" =>
        /\ \A n \in Conflicting : namespace[n] = Unbound
        /\ namespace["cmds"] = Bound("maya.cmds")
        /\ Conflicting \subseteq RawCommands
        /\ \A n \in CoreNames : namespace[n] # Unbound

\* the import is complete, core had exported a cmds of its own, and a
\* plugin has been loaded
C15_Witness ==
    /\ bootPc = "done"
    /\ coreCmds
    /\ namespace["cmds"] = Bound("maya.cmds")
    /\ \E p \in Plugins : pluginData[p] # {}

(***************************************************************************)
(* Wrapped commands on a scene                                             *)
(***************************************************************************)
CommandsInit == SceneInit /\ hostHasUid = TRUE

CommandsNext ==
    \/ \E n \in NodeNames, ty \in NodeTypes : CreateNode(n, ty)
    \/ \E h \in Handles, n \in NodeNames : Group(h, n)
    \/ \E g \in Handles, n \in NodeNames : Instance(g, n)
    \/ \E ty \in NodeTypes, empty \in RawEmpty : Ls(ty, empty)
    \/ \E h \in Handles, empty \in RawEmpty : ListRelatives(h, empty)
    \/ \E cmd \in CreationCommands, n \in NodeNames : CreateCommand(cmd, n)
    \/ Prompt

SpecCommands == CommandsInit /\ [][CommandsNext]_vars

\* C16: ls and listRelatives return a list in every case, the empty list
\* when nothing matches, also when the raw command returned None, and
\* otherwise one PyNode of the class of its node for each match, in the
\* order of the host
C16_ListingNeverNone ==
    ret.op \in {"ls", "listRelatives"} =>
        LET matches == IF ret.op = "ls"
                       THEN {hi \in Paths : node[hi[1]].type = ret.arg}
                       ELSE {hi \in Paths : node[hi[1]].parents[hi[2]] = ret.arg}
        IN /\ ret.value.type = "list"
           /\ Len(ret.value.items) = Cardinality(matches)
           /\ \A k \in 1..Len(ret.value.items) :
                 LET o == ret.value.items[k]
                 IN /\ o.kind = "node"
                    /\ <<o.h, o.inst>> \in matches
                    /\ \A j \in 1..Len(ret.value.items) :
                          ret.value.items[j] = o => j = k

\* a listing found nothing, the raw command returned None and the wrapped
\* command the empty list
C16_Witness ==
    /\ ret.op \in {"ls", "listRelatives"}
    /\ ret.raw = PyNone
    /\ ret.value = PyList(<<>>)
    /\ Alive # {}

\* C17: a wrapped creation command that always creates one object returns
\* the object itself, an instance of the class of its node type, and not a
\* list that holds it
C17_SingleResult ==
    ret.op = "create" =>
        /\ ret.value.type = "instance"
        /\ ret.value.items[1].kind = "node"
        /\ node[ret.value.items[1].h].type = ret.type

(***************************************************************************)
(* Chained lookups: members of the shape reached through the transform     *)
(***************************************************************************)
LookupInit == SceneInit /\ hostHasUid = TRUE

\* the members looked up: of the transform, of the camera, and of neither
LookupMembers == {"translate", "getShape", "getCenterOfInterest", "focalLength", "spangle"}

LookupNext ==
    \/ \E n \in NodeNames, ty \in NodeTypes : CreateNode(n, ty)
    \/ \E h \in Handles, n \in NodeNames : Group(h, n)
    \/ \E v \in Vars, hi \in Paths : Construct(v, NativeName(hi[1], hi[2]))
    \/ \E v \in Vars, m \in LookupMembers : Access(v, m, FALSE)
    \/ Prompt

SpecLookup == LookupInit /\ [][LookupNext]_vars

GenerationInit ==
    /\ hostHasUid = TRUE
    /\ session = 0
    /\ node = [h \in Handles |-> NoNode]
    /\ refs = [v \in Vars |-> NoRef]
    /\ dict = {}
    /\ ret = NoRet
    /\ PackageLoaded
    /\ MeshIdle
    /\ TestIdle
    /\ FactoryInit

GenerationNext ==
    \/ GenerateEntry
    \/ GenerateDone

SpecGeneration == GenerationInit /\ [][GenerationNext]_vars

\* C19: an entry whose metadata is malformed or missing is skipped with a
\* warning and nothing else: every well-formed entry the generation has
\* passed is generated, wherever the bad entries are, the generation never
\* fails, and once it is done all well-formed entries are generated
C19_SkipMalformed ==
    /\ genPc \in {"generating", "done"}
    /\ \A k \in 1..Len(catalogue) :
          k < genIdx =>
             IF catalogue[k].state = "ok"
             THEN catalogue[k].name \in generated
             ELSE /\ catalogue[k].name \notin generated
                  /\ \E w \in 1..Len(warnings) : warnings[w] = catalogue[k].name
    /\ Len(warnings) = Cardinality({k \in 1..Len(catalogue) :
                                       k < genIdx /\ catalogue[k].state # "ok"})
    /\ genPc = "done" => genIdx = Len(catalogue) + 1

\* the generation is done, a malformed entry came before a well-formed one
\* and the well-formed one is generated
C19_Witness ==
    /\ genPc = "done"
    /\ \E i, j \in 1..Len(catalogue) :
          /\ i < j
          /\ catalogue[i].state = "malformed"
          /\ catalogue[j].state = "ok"
          /\ catalogue[j].name \in generated

(***************************************************************************)
(* A run of the examples                                                   *)
(***************************************************************************)
HarnessInit ==
    /\ hostHasUid = TRUE
    /\ session = 0
    /\ node = [h \in Handles |-> NoNode]
    /\ refs = [v \in Vars |-> NoRef]
    /\ dict = {}
    /\ ret = NoRet
    /\ PackageLoaded
    /\ MeshIdle
    /\ FactoryIdle
    /\ TestInit

HarnessNext ==
    \/ CallTest
    \/ RunExample
    \/ FinishTest

SpecHarness == HarnessInit /\ [][HarnessNext]_vars

\* the verdict reported for example k, or "none"
Reported(k) ==
    IF \E i \in 1..Len(report) : report[i].example = k
    THEN report[CHOOSE i \in 1..Len(report) : report[i].example = k].verdict
    ELSE "none"

\* C20 as stated: once the run is over, every example of the docstring has
\* been run and reported, as failed when its output differs from the
\* recorded text and as passed when it does not
C20_Original ==
    testPc = "done" =>
        \A k \in 1..Len(examples) :
            Reported(k) = (IF examples[k].outcome = "differs" THEN "failed" ELSE "ok")

\* C20, amended: every example that is not marked +SKIP is run and reported
\* once, as failed when its output differs from the recorded text and as
\* passed when it does not, whatever the examples before it did; an example
\* marked +SKIP is not run and not reported; the run ends only after the
\* last example
C20_ExamplesIsolated ==
    /\ \A k \in 1..Len(examples) :
          IF k < exIdx /\ ~examples[k].skip
          THEN Reported(k) = (IF examples[k].outcome = "differs" THEN "failed" ELSE "ok")
          ELSE Reported(k) = "none"
    /\ \A i, j \in 1..Len(report) : i < j => report[i].example < report[j].example
    /\ testPc = "done" => exIdx = Len(examples) + 1

\* the run is over, an example failed and a later example was run
C20_Witness ==
    /\ testPc = "done"
    /\ \E i, j \in 1..Len(examples) :
          /\ i < j
          /\ Reported(i) = "failed"
          /\ Reported(j) = "ok"

====
